---------------------------- MODULE Spec2Model ----------------------------
(***************************************************************************)
(* Model of the Graph component of src/grapn.tsx: the scale calculator,    *)
(* the coordinate converters, the canvas renderer (drawGraph) and the two  *)
(* pointer handlers, together with the part of the React life cycle the    *)
(* component relies on (mount, re-render on new props or new state, ref    *)
(* attachment, effect execution).                                          *)
(*                                                                         *)
(* Numbers.  A JavaScript number is modelled as an exact rational n/d in   *)
(* lowest terms (d > 0), extended with the three non-finite values of      *)
(* IEEE arithmetic: NaN (0/0), +Infinity (1/0) and -Infinity (-1/0).       *)
(* Rounding and the sign of zero are not modelled.  The data values and    *)
(* the pointer coordinates explored are integers; scales, pixel positions  *)
(* and grid values are the rationals the code computes from them.          *)
(*                                                                         *)
(* Distances.  Math.sqrt is strictly increasing on the non-negative        *)
(* numbers, so every comparison the hit test makes between distances is    *)
(* made here between squared distances (d < 20 iff d*d < 400).             *)
(***************************************************************************)
EXTENDS Integers, Sequences, FiniteSets

VARIABLES xData, yData, width, height, margin,
          hoveredPoint, view, canvasRef, drawCalls, divByZero, lastEvent

vars == <<xData, yData, width, height, margin,
          hoveredPoint, view, canvasRef, drawCalls, divByZero, lastEvent>>

(***************************************************************************)
(* Bounds of the model.                                                    *)
(***************************************************************************)
\* longest series explored
MaxLen == 2

\* data values of the explored series: x ranges 0, 3, 22 and 25 (fewer than,
\* and more than, 10 units), y ranges 0 and 25
XValues == {0, 3, 25}

YValues == {0, 25}

\* <<width, height, margin>>: the defaults of the component, and a surface
\* whose plot rectangle is 20 pixels wide and 0 pixels high
Configs == {<<600, 400, 50>>, <<120, 100, 50>>}

\* pointer positions, as offsets <<right, up>> from the pixel of (minX, minY):
\* at distance 0, 10, 15, 20 (twice) and 25 from it
PointerOffsets == {<<0, 0>>, <<10, 0>>, <<15, 0>>, <<12, 16>>, <<20, 0>>, <<25, 0>>}

XSeries == UNION {[1..k -> XValues] : k \in 0..MaxLen}

YSeries == UNION {[1..k -> YValues] : k \in 0..MaxLen}

\* the arrays one element longer or shorter than s
Edits(s, values) ==
    {Append(s, v) : v \in {w \in values : Len(s) < MaxLen}}
        \cup {SubSeq(s, 1, Len(s) - 1) : k \in {j \in {1} : Len(s) > 0}}

(***************************************************************************)
(* JavaScript numbers.                                                     *)
(***************************************************************************)
Abs(i) == IF i < 0 THEN -i ELSE i

Sign(i) == IF i < 0 THEN -1 ELSE IF i > 0 THEN 1 ELSE 0

RECURSIVE GCD(_, _)
GCD(a, b) == IF b = 0 THEN a ELSE GCD(b, a % b)

\* the number n/d: in lowest terms when d # 0, NaN or +-Infinity when d = 0
Mk(n, d) ==
    IF d = 0 THEN [n |-> Sign(n), d |-> 0]
    ELSE LET g == GCD(Abs(n), Abs(d))
             s == IF d < 0 THEN -1 ELSE 1
         IN  [n |-> (s * n) \div g, d |-> (s * d) \div g]

Num(i) == [n |-> i, d |-> 1]

NaN == [n |-> 0, d |-> 0]

Infinity == [n |-> 1, d |-> 0]

NegInfinity == [n |-> -1, d |-> 0]

IsNaN(a) == a.d = 0 /\ a.n = 0

IsFinite(a) == a.d # 0

IsZero(a) == a.d # 0 /\ a.n = 0

Neg(a) == [n |-> -a.n, d |-> a.d]

Add(a, b) ==
    IF IsNaN(a) \/ IsNaN(b) THEN NaN
    ELSE IF a.d = 0 /\ b.d = 0 THEN (IF a.n = b.n THEN a ELSE NaN)
    ELSE IF a.d = 0 THEN a
    ELSE IF b.d = 0 THEN b
    ELSE Mk(a.n * b.d + b.n * a.d, a.d * b.d)

Sub(a, b) == Add(a, Neg(b))

\* Infinity * 0 and NaN * x come out as 0/0
Mul(a, b) == Mk(a.n * b.n, a.d * b.d)

\* IEEE division: x/0 is +-Infinity, 0/0 is NaN, x/Infinity is 0
Div(a, b) ==
    IF IsNaN(a) \/ IsNaN(b) THEN NaN
    ELSE IF b.d = 0 THEN (IF a.d = 0 THEN NaN ELSE Num(0))
    ELSE IF a.d = 0 THEN [n |-> a.n * (IF b.n < 0 THEN -1 ELSE 1), d |-> 0]
    ELSE Mk(a.n * b.d, a.d * b.n)

Lt(a, b) ==
    IF IsNaN(a) \/ IsNaN(b) THEN FALSE
    ELSE IF a.d = 0 /\ b.d = 0 THEN a.n < b.n
    ELSE a.n * b.d < b.n * a.d

Le(a, b) ==
    IF IsNaN(a) \/ IsNaN(b) THEN FALSE
    ELSE IF a.d = 0 /\ b.d = 0 THEN a.n <= b.n
    ELSE a.n * b.d <= b.n * a.d

\* Math.min(a, b), Math.max(a, b)
Min2(a, b) == IF IsNaN(a) \/ IsNaN(b) THEN NaN ELSE IF Lt(b, a) THEN b ELSE a

Max2(a, b) == IF IsNaN(a) \/ IsNaN(b) THEN NaN ELSE IF Lt(a, b) THEN b ELSE a

\* Math.min(...s): Infinity for the empty array
RECURSIVE MathMin(_)
MathMin(s) == IF s = <<>> THEN Infinity ELSE Min2(Num(Head(s)), MathMin(Tail(s)))

\* Math.max(...s): -Infinity for the empty array
RECURSIVE MathMax(_)
MathMax(s) == IF s = <<>> THEN NegInfinity ELSE Max2(Num(Head(s)), MathMax(Tail(s)))

\* a || 1: a when it is truthy (neither 0 nor NaN), else 1
OrOne(a) == IF IsNaN(a) \/ IsZero(a) THEN Num(1) ELSE a

(***************************************************************************)
(* Scale calculator and coordinate converters.                             *)
(***************************************************************************)
calculateScalesNoGuard(xs, ys, w, h, m) ==
    LET minX == MathMin(xs)
        maxX == MathMax(xs)
        minY == MathMin(ys)
        maxY == MathMax(ys)
    IN  [minX |-> minX, maxX |-> maxX, minY |-> minY, maxY |-> maxY,
         scaleX |-> Div(Num(w - 2 * m), Sub(maxX, minX)),
         scaleY |-> Div(Num(h - 2 * m), Sub(maxY, minY))]

calculateScalesNoMargin(xs, ys, w, h, m) ==
    LET minX == MathMin(xs)
        maxX == MathMax(xs)
        minY == MathMin(ys)
        maxY == MathMax(ys)
    IN  [minX |-> minX, maxX |-> maxX, minY |-> minY, maxY |-> maxY,
         scaleX |-> Div(Num(w - m), OrOne(Sub(maxX, minX))),
         scaleY |-> Div(Num(h - m), OrOne(Sub(maxY, minY)))]

calculateScales(xs, ys, w, h, m) ==
    LET minX == MathMin(xs)
        maxX == MathMax(xs)
        minY == MathMin(ys)
        maxY == MathMax(ys)
    IN  [minX |-> minX, maxX |-> maxX, minY |-> minY, maxY |-> maxY,
         scaleX |-> Div(Num(w - 2 * m), OrOne(Sub(maxX, minX))),
         scaleY |-> Div(Num(h - 2 * m), OrOne(Sub(maxY, minY)))]

toCanvasX(scales, m, x) == Add(Num(m), Mul(Sub(x, scales.minX), scales.scaleX))

toCanvasY(scales, h, m, y) ==
    Sub(Num(h - m), Mul(Sub(y, scales.minY), scales.scaleY))

toDataXNoOrigin(scales, m, canvasX) == Div(Sub(canvasX, Num(m)), scales.scaleX)

toDataX(scales, m, canvasX) ==
    Add(scales.minX, Div(Sub(canvasX, Num(m)), scales.scaleX))

toDataY(scales, h, m, canvasY) ==
    Add(scales.minY, Div(Sub(Num(h - m), canvasY), scales.scaleY))

(***************************************************************************)
(* Renderer.  drawGraph yields the canvas calls of one execution, in       *)
(* order, as records [op, px, py, val]: px, py are canvas coordinates and  *)
(* val is the data value a grid line is labelled with (the text of the     *)
(* labels and the colours are not modelled).  One "gridV" ("gridH")        *)
(* record stands for the beginPath/moveTo/lineTo/stroke/fillText of one    *)
(* vertical (horizontal) grid line.                                        *)
(***************************************************************************)
Null == <<>>

\* Math.min(10, range) of the grid loops
MaxGridSteps == 10

Call(op, px, py, val) == [op |-> op, px |-> px, py |-> py, val |-> val]

RECURSIVE verticalGridLinesExclusive(_, _, _, _)
verticalGridLinesExclusive(i, xSteps, scales, m) ==
    IF Lt(Num(i), xSteps)
    THEN LET x == Add(scales.minX,
                      Mul(Sub(scales.maxX, scales.minX), Div(Num(i), xSteps)))
         IN  <<Call("gridV", toCanvasX(scales, m, x), Num(m), x)>>
             \o verticalGridLinesExclusive(i + 1, xSteps, scales, m)
    ELSE <<>>

RECURSIVE verticalGridLines(_, _, _, _)
verticalGridLines(i, xSteps, scales, m) ==
    IF Le(Num(i), xSteps)
    THEN LET x == Add(scales.minX,
                      Mul(Sub(scales.maxX, scales.minX), Div(Num(i), xSteps)))
         IN  <<Call("gridV", toCanvasX(scales, m, x), Num(m), x)>>
             \o verticalGridLines(i + 1, xSteps, scales, m)
    ELSE <<>>

RECURSIVE horizontalGridLines(_, _, _, _, _)
horizontalGridLines(i, ySteps, scales, h, m) ==
    IF Le(Num(i), ySteps)
    THEN LET y == Add(scales.minY,
                      Mul(Sub(scales.maxY, scales.minY), Div(Num(i), ySteps)))
         IN  <<Call("gridH", Num(m), toCanvasY(scales, h, m, y), y)>>
             \o horizontalGridLines(i + 1, ySteps, scales, h, m)
    ELSE <<>>

\* the path of the series: moveTo for the first point, lineTo for the others
polyline(xs, ys, scales, h, m) ==
    [i \in 1..Len(xs) |->
        Call(IF i = 1 THEN "moveTo" ELSE "lineTo",
             toCanvasX(scales, m, Num(xs[i])),
             toCanvasY(scales, h, m, Num(ys[i])), Num(0))]

pointMarkers(xs, ys, scales, h, m) ==
    [i \in 1..Len(xs) |->
        Call("point", toCanvasX(scales, m, Num(xs[i])),
             toCanvasY(scales, h, m, Num(ys[i])), Num(0))]

\* hp is Null or <<i>>, i the 0-based index of the hovered point
hoverHighlight(xs, ys, scales, h, m, hp) ==
    IF hp # Null /\ hp[1] >= 0 /\ hp[1] < Len(xs)
    THEN <<Call("highlight", toCanvasX(scales, m, Num(xs[hp[1] + 1])),
                toCanvasY(scales, h, m, Num(ys[hp[1] + 1])), Num(0))>>
    ELSE <<>>

drawGraph(cref, xs, ys, w, h, m, hp) ==
    IF cref = "null" THEN <<>>
    ELSE LET scales == calculateScales(xs, ys, w, h, m)
             xSteps == Min2(Num(MaxGridSteps), Sub(scales.maxX, scales.minX))
             ySteps == Min2(Num(MaxGridSteps), Sub(scales.maxY, scales.minY))
         IN  <<Call("clearRect", Num(0), Num(0), Num(0))>>
             \o verticalGridLines(0, xSteps, scales, m)
             \o horizontalGridLines(0, ySteps, scales, h, m)
             \o <<Call("axisX", Num(m), Num(h - m), Num(0)),
                  Call("axisY", Num(m), Num(m), Num(0))>>
             \o <<Call("beginPath", Num(0), Num(0), Num(0))>>
             \o polyline(xs, ys, scales, h, m)
             \o <<Call("stroke", Num(0), Num(0), Num(0))>>
             \o pointMarkers(xs, ys, scales, h, m)
             \o hoverHighlight(xs, ys, scales, h, m, hp)

\* whether one execution of drawGraph divides by zero: the divisors are those
\* of the two scales and, once per iteration of a grid loop, the step count
drawGraphDividesByZero(cref, xs, ys, w, h, m) ==
    /\ cref # "null"
    /\ LET scales == calculateScales(xs, ys, w, h, m)
           rangeX == Sub(scales.maxX, scales.minX)
           rangeY == Sub(scales.maxY, scales.minY)
           xSteps == Min2(Num(MaxGridSteps), rangeX)
           ySteps == Min2(Num(MaxGridSteps), rangeY)
       IN  \/ IsZero(OrOne(rangeX))
           \/ IsZero(OrOne(rangeY))
           \/ Le(Num(0), xSteps) /\ IsZero(xSteps)
           \/ Le(Num(0), ySteps) /\ IsZero(ySteps)

(***************************************************************************)
(* Hit tester.                                                             *)
(***************************************************************************)
\* the radius, in pixels, within which a point is hovered
HoverRadius == 20

closerInclusiveRadius(distanceSq, minDistanceSq) ==
    Le(distanceSq, Num(HoverRadius * HoverRadius)) /\ Lt(distanceSq, minDistanceSq)

closerOrEqual(distanceSq, minDistanceSq) ==
    Lt(distanceSq, Num(HoverRadius * HoverRadius)) /\ Le(distanceSq, minDistanceSq)

\* distance < 20 && distance < minDistance, on the squares
closer(distanceSq, minDistanceSq) ==
    Lt(distanceSq, Num(HoverRadius * HoverRadius)) /\ Lt(distanceSq, minDistanceSq)

\* (mouseX - canvasX)^2 + (mouseY - canvasY)^2 for the point at index i (0-based)
pointDistanceSq(xs, ys, scales, h, m, mouseX, mouseY, i) ==
    LET canvasX == Add(Num(m), Mul(Sub(Num(xs[i + 1]), scales.minX), scales.scaleX))
        canvasY == Sub(Num(h - m), Mul(Sub(Num(ys[i + 1]), scales.minY), scales.scaleY))
        dx == Sub(Num(mouseX), canvasX)
        dy == Sub(Num(mouseY), canvasY)
    IN  Add(Mul(dx, dx), Mul(dy, dy))

RECURSIVE closestPoint(_, _, _, _, _, _, _, _, _, _)
closestPoint(i, closestIndex, minDistanceSq, xs, ys, scales, h, m, mouseX, mouseY) ==
    IF i >= Len(xs) THEN closestIndex
    ELSE LET distanceSq == pointDistanceSq(xs, ys, scales, h, m, mouseX, mouseY, i)
         IN  IF closer(distanceSq, minDistanceSq)
             THEN closestPoint(i + 1, i, distanceSq, xs, ys, scales, h, m, mouseX, mouseY)
             ELSE closestPoint(i + 1, closestIndex, minDistanceSq,
                               xs, ys, scales, h, m, mouseX, mouseY)

handleMouseMoveOneBased(xs, ys, w, h, m, mouseX, mouseY) ==
    LET scales == calculateScales(xs, ys, w, h, m)
        closestIndex == closestPoint(0, -1, Infinity, xs, ys, scales, h, m, mouseX, mouseY)
    IN  IF closestIndex # -1 THEN <<closestIndex + 1>> ELSE Null

\* the value handed to setHoveredPoint
handleMouseMove(xs, ys, w, h, m, mouseX, mouseY) ==
    LET scales == calculateScales(xs, ys, w, h, m)
        closestIndex == closestPoint(0, -1, Infinity, xs, ys, scales, h, m, mouseX, mouseY)
    IN  IF closestIndex # -1 THEN <<closestIndex>> ELSE Null

handleMouseLeaveKeeps(hp) == hp

\* the value handed to setHoveredPoint; hp is the value before the event
handleMouseLeave(hp) == Null

(***************************************************************************)
(* The component in its React life cycle.                                  *)
(***************************************************************************)
GraphNoEmptyCheck(xs, ys) == IF Len(xs) # Len(ys) THEN "error" ELSE "chart"

\* what the component returns: the error message or the chart with its canvas
Graph(xs, ys) == IF Len(xs) # Len(ys) \/ Len(xs) = 0 THEN "error" ELSE "chart"

\* canvasRef.current after the commit: the canvas element when it is rendered
attachRef(v) == IF v = "chart" THEN "canvas" ELSE "null"

Event(type, x, y) == [type |-> type, x |-> x, y |-> y]

TypeOK ==
    /\ xData \in XSeries /\ yData \in YSeries
    /\ <<width, height, margin>> \in Configs
    /\ hoveredPoint \in {Null} \cup {<<i>> : i \in 0..(MaxLen - 1)}
    /\ view \in {"error", "chart"}
    /\ canvasRef \in {"null", "canvas"}
    /\ divByZero \in BOOLEAN
    /\ lastEvent.type \in {"mount", "props", "move", "leave"}

\* first render, commit and effect
Init ==
    \E xs \in XSeries, ys \in YSeries, cfg \in Configs :
        /\ xData = xs /\ yData = ys
        /\ width = cfg[1] /\ height = cfg[2] /\ margin = cfg[3]
        /\ hoveredPoint = Null
        /\ view = Graph(xs, ys)
        /\ canvasRef = attachRef(Graph(xs, ys))
        /\ drawCalls = drawGraph(attachRef(Graph(xs, ys)), xs, ys,
                                 cfg[1], cfg[2], cfg[3], Null)
        /\ divByZero = drawGraphDividesByZero(attachRef(Graph(xs, ys)), xs, ys,
                                              cfg[1], cfg[2], cfg[3])
        /\ lastEvent = Event("mount", 0, 0)

\* setHoveredPoint(hp): a changed state re-renders the component, which gives
\* drawGraph a new identity and runs the effect; an unchanged one does nothing
setHoveredPoint(hp) ==
    /\ hoveredPoint' = hp
    /\ IF hp # hoveredPoint
       THEN /\ drawCalls' = drawGraph(canvasRef, xData, yData, width, height, margin, hp)
            /\ divByZero' = drawGraphDividesByZero(canvasRef, xData, yData,
                                                   width, height, margin)
       ELSE /\ drawCalls' = <<>>
            /\ divByZero' = FALSE
    /\ UNCHANGED <<xData, yData, width, height, margin, view, canvasRef>>

\* onMouseMove of the canvas, the pointer at (mouseX, mouseY) of the surface
MouseMove(mouseX, mouseY) ==
    /\ canvasRef = "canvas"
    /\ setHoveredPoint(handleMouseMove(xData, yData, width, height, margin,
                                       mouseX, mouseY))
    /\ lastEvent' = Event("move", mouseX, mouseY)

\* onMouseLeave of the canvas
MouseLeave ==
    /\ canvasRef = "canvas"
    /\ setHoveredPoint(handleMouseLeave(hoveredPoint))
    /\ lastEvent' = Event("leave", 0, 0)

\* the host renders the component with arrays xs, ys (new objects, also when
\* their contents are the old ones): render, commit, effect
Rerender(xs, ys) ==
    /\ xData' = xs /\ yData' = ys
    /\ view' = Graph(xs, ys)
    /\ canvasRef' = attachRef(Graph(xs, ys))
    /\ drawCalls' = drawGraph(attachRef(Graph(xs, ys)), xs, ys,
                              width, height, margin, hoveredPoint)
    /\ divByZero' = drawGraphDividesByZero(attachRef(Graph(xs, ys)), xs, ys,
                                           width, height, margin)
    /\ lastEvent' = Event("props", 0, 0)
    /\ UNCHANGED <<width, height, margin, hoveredPoint>>

\* A new xData, or a new yData.  The host may pass any array; the model
\* passes one that differs from the last by its final element, and reaches
\* every array by such steps (a render changes nothing but what is drawn).
SetXData == \E xs \in Edits(xData, XValues) : Rerender(xs, yData)

SetYData == \E ys \in Edits(yData, YValues) : Rerender(xData, ys)

RenderAgain == Rerender(xData, yData)

PointerMove ==
    \E p \in PointerOffsets : MouseMove(margin + p[1], height - margin - p[2])

Next == PointerMove \/ MouseLeave \/ SetXData \/ SetYData

Spec == Init /\ [][Next]_vars

\* the same view with its series fixed: pointer events and renders only
NextFixedSeries == PointerMove \/ MouseLeave \/ RenderAgain

SpecFixedSeries == Init /\ [][NextFixedSeries]_vars

(***************************************************************************)
(* Vocabulary of the properties.                                           *)
(***************************************************************************)
Valid == Len(xData) = Len(yData) /\ Len(xData) >= 1

N == Len(xData)

Scales == calculateScales(xData, yData, width, height, margin)

Rendered == drawCalls # <<>>

IntMin(s) == CHOOSE v \in {s[i] : i \in 1..Len(s)} : \A i \in 1..Len(s) : v <= s[i]

IntMax(s) == CHOOSE v \in {s[i] : i \in 1..Len(s)} : \A i \in 1..Len(s) : v >= s[i]

RangeX == IntMax(xData) - IntMin(xData)

RangeY == IntMax(yData) - IntMin(yData)

\* pixel position of the point at index i (0-based)
PixelX(i) == toCanvasX(Scales, margin, Num(xData[i + 1]))

PixelY(i) == toCanvasY(Scales, height, margin, Num(yData[i + 1]))

\* squared distance of the point at index i from the pointer of the last move
PointerDistSq(i) ==
    LET dx == Sub(Num(lastEvent.x), PixelX(i))
        dy == Sub(Num(lastEvent.y), PixelY(i))
    IN  Add(Mul(dx, dx), Mul(dy, dy))

\* the points nearest the pointer, when they lie within the radius
NearestWithinRadius ==
    {i \in 0..(N - 1) :
        /\ Lt(PointerDistSq(i), Num(HoverRadius * HoverRadius))
        /\ \A j \in 0..(N - 1) : Le(PointerDistSq(i), PointerDistSq(j))}

CallsOf(op) == {k \in 1..Len(drawCalls) : drawCalls[k].op = op}

\* the k-th (from 1) call of kind op
NthCall(op, k) ==
    drawCalls[CHOOSE j \in CallsOf(op) :
                Cardinality({l \in CallsOf(op) : l <= j}) = k]

MinInt(a, b) == IF a < b THEN a ELSE b

(***************************************************************************)
(* C1.  After a pointer move, hoveredPoint is a point at minimum distance  *)
(* from the pointer when that distance is below 20 pixels, and null when   *)
(* no point is nearer than 20 pixels, whatever it was before the move.     *)
(***************************************************************************)
HitTestSelectsNearest ==
    lastEvent.type = "move" =>
        IF NearestWithinRadius = {}
        THEN hoveredPoint = Null
        ELSE hoveredPoint # Null /\ hoveredPoint[1] \in NearestWithinRadius

\* the second point was selected as the nearer one, the first being in reach too
HitTestWitness ==
    /\ lastEvent.type = "move"
    /\ hoveredPoint = <<1>>
    /\ Lt(PointerDistSq(0), Num(HoverRadius * HoverRadius))
    /\ Lt(Num(0), PointerDistSq(1))

(***************************************************************************)
(* C2.  Right after a pointer-leave, hoveredPoint is null.                 *)
(***************************************************************************)
LeaveClearsHover == lastEvent.type = "leave" => hoveredPoint = Null

\* a leave that changed the state (the chart was redrawn): a point was hovered
LeaveWitness == lastEvent.type = "leave" /\ Rendered /\ hoveredPoint = Null

(***************************************************************************)
(* C3.  When several points share the minimum distance and it is below 20  *)
(* pixels, a pointer move selects the one of lowest index.                 *)
(***************************************************************************)
TieResolvesToLowestIndex ==
    (lastEvent.type = "move" /\ Cardinality(NearestWithinRadius) >= 2) =>
        /\ hoveredPoint # Null
        /\ hoveredPoint[1] \in NearestWithinRadius
        /\ \A j \in NearestWithinRadius : hoveredPoint[1] <= j

\* a tie between two points at different pixels
TieWitness ==
    /\ lastEvent.type = "move"
    /\ Cardinality(NearestWithinRadius) >= 2
    /\ \E i, j \in NearestWithinRadius : PixelX(i) # PixelX(j)
    /\ hoveredPoint = <<0>>

(***************************************************************************)
(* C4.  With arrays of different lengths, or empty ones, the component     *)
(* shows the error message, no canvas is attached and no canvas call is    *)
(* issued.                                                                 *)
(***************************************************************************)
InvalidInputDrawsNothing ==
    ~Valid => view = "error" /\ canvasRef = "null" /\ drawCalls = <<>>

\* invalid arrays given to a view that had a valid series (a point was hovered)
InvalidInputWitness ==
    ~Valid /\ lastEvent.type = "props" /\ hoveredPoint # Null /\ view = "error"

(***************************************************************************)
(* C5.  A render of a series with a degenerate range on an axis divides    *)
(* by zero nowhere.                                                        *)
(***************************************************************************)
DegenerateRenderNeverDividesByZero ==
    (Rendered /\ (RangeX = 0 \/ RangeY = 0)) => ~divByZero

(***************************************************************************)
(* C6.  As claimed: with a degenerate range on an axis the scale of that   *)
(* axis is 1.                                                              *)
(***************************************************************************)
DegenerateScaleIsOne ==
    Valid => /\ RangeX = 0 => Scales.scaleX = Num(1)
             /\ RangeY = 0 => Scales.scaleY = Num(1)

(***************************************************************************)
(* C6, amended.  With a degenerate range on an axis the divisor is 1, so   *)
(* the scale of that axis is the extent of the plot rectangle: width -     *)
(* 2 * margin for x, height - 2 * margin for y.                            *)
(***************************************************************************)
DegenerateScaleIsPlotExtent ==
    Valid => /\ RangeX = 0 => Scales.scaleX = Num(width - 2 * margin)
             /\ RangeY = 0 => Scales.scaleY = Num(height - 2 * margin)

\* X = [v], Y = [v'] drawn on the default surface
DegenerateScaleWitness ==
    /\ Valid /\ Rendered /\ RangeX = 0 /\ RangeY = 0
    /\ width = 600 /\ height = 400 /\ margin = 50
    /\ Scales.scaleX = Num(500) /\ Scales.scaleY = Num(300)

(***************************************************************************)
(* C7.  With a non-degenerate range on both axes, the corners of the data  *)
(* bounding box map to the corners of the plot rectangle.                  *)
(***************************************************************************)
BoundingBoxMapsToPlotRectangle ==
    (Valid /\ RangeX > 0 /\ RangeY > 0) =>
        /\ toCanvasX(Scales, margin, Num(IntMin(xData))) = Num(margin)
        /\ toCanvasX(Scales, margin, Num(IntMax(xData))) = Num(width - margin)
        /\ toCanvasY(Scales, height, margin, Num(IntMin(yData))) = Num(height - margin)
        /\ toCanvasY(Scales, height, margin, Num(IntMax(yData))) = Num(margin)

BoundingBoxWitness ==
    /\ Valid /\ Rendered /\ RangeX = 3 /\ RangeY = 25
    /\ width = 600 /\ height = 400 /\ margin = 50

(***************************************************************************)
(* C8.  Probe values of an axis: the values of the series and points       *)
(* strictly between their minimum and maximum.                             *)
(***************************************************************************)
Probes(s) ==
    LET lo == IntMin(s)
        hi == IntMax(s)
    IN  {Num(s[i]) : i \in 1..Len(s)}
            \cup {Mk(lo + hi, 2), Mk(2 * lo + hi, 3), Mk(lo + 6 * hi, 7)}

RoundTripX ==
    \A x \in Probes(xData) :
        toDataX(Scales, margin, toCanvasX(Scales, margin, x)) = x

RoundTripY ==
    \A y \in Probes(yData) :
        toDataY(Scales, height, margin, toCanvasY(Scales, height, margin, y)) = y

(***************************************************************************)
(* C8.  As claimed: for every valid series and every surface of positive   *)
(* width, height and margin, converting a data value to pixels and back    *)
(* yields the value.                                                       *)
(***************************************************************************)
RoundTripOnEverySurface == Valid => RoundTripX /\ RoundTripY

(***************************************************************************)
(* C8, amended.  The round trip holds on an axis whose plot extent is not  *)
(* zero: for x when width # 2 * margin, for y when height # 2 * margin.    *)
(***************************************************************************)
RoundTripOnNonEmptyPlot ==
    Valid => /\ width # 2 * margin => RoundTripX
             /\ height # 2 * margin => RoundTripY

\* a series with both ranges positive, and one probe that is no integer
RoundTripWitness ==
    /\ Valid /\ Rendered /\ RangeX = 25 /\ RangeY = 25
    /\ width # 2 * margin /\ height # 2 * margin
    /\ \E x \in Probes(xData) : x.d # 1

(***************************************************************************)
(* C9.  As claimed: a render draws at most 10 grid lines per axis, and     *)
(* min(10, range) of them on an axis of integer range.  Stated for the     *)
(* renders with a range of at least 1 on both axes, where no grid          *)
(* position is NaN.                                                        *)
(***************************************************************************)
GridLinesAtMostTen ==
    (Rendered /\ RangeX >= 1 /\ RangeY >= 1) =>
        /\ Cardinality(CallsOf("gridV")) <= MaxGridSteps
        /\ Cardinality(CallsOf("gridH")) <= MaxGridSteps
        /\ Cardinality(CallsOf("gridV")) = MinInt(MaxGridSteps, RangeX)
        /\ Cardinality(CallsOf("gridH")) = MinInt(MaxGridSteps, RangeY)

(***************************************************************************)
(* C9, amended.  A render draws at most 11 grid lines per axis; on an axis *)
(* of integer range >= 1 it draws min(10, range) + 1 of them, the k-th     *)
(* (from 0) at data value min + k * range / min(10, range), which is       *)
(* pixel margin + k * extent / min(10, range) from the left (from the      *)
(* bottom): evenly spaced, the first at min and the last at max.           *)
(***************************************************************************)
GridLinesAreStepsPlusOne ==
    Rendered =>
        /\ Cardinality(CallsOf("gridV")) <= MaxGridSteps + 1
        /\ Cardinality(CallsOf("gridH")) <= MaxGridSteps + 1
        /\ RangeX >= 1 =>
            LET steps == MinInt(MaxGridSteps, RangeX)
            IN  /\ Cardinality(CallsOf("gridV")) = steps + 1
                /\ \A k \in 0..steps :
                    /\ NthCall("gridV", k + 1).val
                         = Mk(IntMin(xData) * steps + k * RangeX, steps)
                    /\ NthCall("gridV", k + 1).px
                         = Mk(margin * steps + k * (width - 2 * margin), steps)
        /\ RangeY >= 1 =>
            LET steps == MinInt(MaxGridSteps, RangeY)
            IN  /\ Cardinality(CallsOf("gridH")) = steps + 1
                /\ \A k \in 0..steps :
                    /\ NthCall("gridH", k + 1).val
                         = Mk(IntMin(yData) * steps + k * RangeY, steps)
                    /\ NthCall("gridH", k + 1).py
                         = Mk((height - margin) * steps
                                - k * (height - 2 * margin), steps)

\* 4 vertical lines for an x range of 3, 11 horizontal ones for a y range of 25
GridLinesWitness ==
    /\ Rendered /\ RangeX = 3 /\ RangeY = 25
    /\ Cardinality(CallsOf("gridV")) = 4
    /\ Cardinality(CallsOf("gridH")) = 11

(***************************************************************************)
(* C10.  On a view whose valid series does not change, hoveredPoint is     *)
(* always null or an index of the series, and only a pointer move or a     *)
(* pointer leave changes it: a render leaves it as it is.                  *)
(***************************************************************************)
HoverIsIndexChangedByPointerOnly ==
    /\ [](Valid => (hoveredPoint = Null \/ hoveredPoint[1] \in 0..(N - 1)))
    /\ [][lastEvent'.type \notin {"move", "leave"} => hoveredPoint' = hoveredPoint]_vars

\* a render while the last point of the series is hovered
HoverWitness ==
    Valid /\ lastEvent.type = "props" /\ hoveredPoint = <<N - 1>> /\ N >= 2

=============================================================================
